---- MODULE Spec2Model ----
(***************************************************************************)
(* A model of cooltools' numeric core: the diagonal utilities, the lazy    *)
(* Toeplitz matrix, observed_over_expected and                             *)
(* iterative_correction_symmetric (src/cooltools/lib/numutils.py) and the  *)
(* insulation scorer (src/cooltools/insulation.py).                        *)
(*                                                                         *)
(* Floating-point values are modelled exactly: a number is a pair <<n, d>> *)
(* standing for the rational n/d in lowest terms with d > 0, and the three *)
(* IEEE specials are the pairs with d = 0: NaN = <<0,0>>, +inf = <<1,0>>,  *)
(* -inf = <<-1,0>>.  Rounding error is therefore outside the model.        *)
(*                                                                         *)
(* Python lists and 1-D arrays are sequences; element i of the code is     *)
(* element i+1 of the sequence.  A 2-D array is a record                   *)
(* [rows, cols, flat] whose flat field is the row-major buffer, the view   *)
(* the code itself takes through arr.flat and arr.ravel().                 *)
(***************************************************************************)
EXTENDS Integers, Sequences, FiniteSets, TLC

\* ------------------------------------------------------------------
\* Numbers
\* ------------------------------------------------------------------

Abs(n) == IF n < 0 THEN -n ELSE n

Sign(n) == IF n < 0 THEN -1 ELSE IF n > 0 THEN 1 ELSE 0

Max(a, b) == IF a >= b THEN a ELSE b

Min(a, b) == IF a <= b THEN a ELSE b

RECURSIVE GCD(_, _)
GCD(a, b) == IF b = 0 THEN Abs(a) ELSE GCD(b, a % Abs(b))

NaN == <<0, 0>>

PosInf == <<1, 0>>

NegInf == <<-1, 0>>

\* The largest numerator or denominator that is followed exactly.
MaxInt == 2 ^ 30 + (2 ^ 30 - 1)

\* A number whose numerator or denominator lies beyond MaxInt.  The
\* operations pass it on, and no step that would store it is taken: a run is
\* followed for as long as its numbers stay within MaxInt.
Huge == <<2, 0>>

\* a * b lies within MaxInt.
Fits(a, b) == a = 0 \/ Abs(b) <= MaxInt \div Abs(a)

\* n/d as a number: lowest terms, positive denominator; x/0 is an IEEE special.
Q(n, d) ==
    IF d = 0 THEN <<Sign(n), 0>>
    ELSE LET g == GCD(Abs(n), Abs(d))
             s == Sign(d)
         IN  <<(s * n) \div g, (s * d) \div g>>

Num(n) == <<n, 1>>

IsNaN(x) == x = NaN

IsFinite(x) == x[2] # 0

IsPosInf(x) == x = PosInf

IsNegInf(x) == x = NegInf

Neg(x) == <<-x[1], x[2]>>

\* The sum of two finite numbers.
AddFinite(x, y) ==
    LET g == GCD(x[2], y[2])
        a == y[2] \div g
        b == x[2] \div g
    IN  IF ~Fits(x[1], a) \/ ~Fits(y[1], b) \/ ~Fits(b, y[2]) THEN Huge
        ELSE IF Abs(x[1] * a) > MaxInt - Abs(y[1] * b) THEN Huge
        ELSE Q(x[1] * a + y[1] * b, b * y[2])

\* IEEE addition; inf + (-inf) and anything + NaN are NaN.
NumAdd(x, y) ==
    IF x = Huge \/ y = Huge THEN Huge
    ELSE IF IsNaN(x) \/ IsNaN(y) THEN NaN
    ELSE IF ~IsFinite(x) THEN (IF ~IsFinite(y) /\ y # x THEN NaN ELSE x)
    ELSE IF ~IsFinite(y) THEN y
    ELSE AddFinite(x, y)

NumSub(x, y) == IF y = Huge THEN Huge ELSE NumAdd(x, Neg(y))

\* The product of two finite numbers.
MulFinite(x, y) ==
    LET g1 == GCD(Abs(x[1]), y[2])
        g2 == GCD(Abs(y[1]), x[2])
    IN  IF x[1] = 0 \/ y[1] = 0 THEN <<0, 1>>
        ELSE IF ~Fits(x[1] \div g1, y[1] \div g2) \/ ~Fits(x[2] \div g2, y[2] \div g1) THEN Huge
        ELSE <<(x[1] \div g1) * (y[1] \div g2), (x[2] \div g2) * (y[2] \div g1)>>

\* IEEE multiplication; 0 * inf is NaN.
NumMul(x, y) ==
    IF x = Huge \/ y = Huge THEN Huge
    ELSE IF IsNaN(x) \/ IsNaN(y) THEN NaN
    ELSE IF ~IsFinite(x) \/ ~IsFinite(y) THEN <<Sign(x[1]) * Sign(y[1]), 0>>
    ELSE MulFinite(x, y)

\* IEEE division; x/0 is +-inf, 0/0 and inf/inf are NaN.
NumDiv(x, y) ==
    IF x = Huge \/ y = Huge THEN Huge
    ELSE IF IsNaN(x) \/ IsNaN(y) THEN NaN
    ELSE IF ~IsFinite(y) THEN (IF ~IsFinite(x) THEN NaN ELSE <<0, 1>>)
    ELSE IF ~IsFinite(x) THEN (IF y[1] < 0 THEN Neg(x) ELSE x)
    ELSE IF y[1] = 0 THEN <<Sign(x[1]), 0>>
    ELSE MulFinite(x, IF y[1] < 0 THEN <<-y[2], -y[1]>> ELSE <<y[2], y[1]>>)

\* a/b < c/d for b, d > 0, by the integer parts and then the remainders.
RECURSIVE FracLt(_, _, _, _)
FracLt(a, b, c, d) ==
    IF a \div b # c \div d THEN a \div b < c \div d
    ELSE IF c % d = 0 THEN FALSE
    ELSE IF a % b = 0 THEN TRUE
    ELSE FracLt(d, c % d, b, a % b)

\* x < y; every comparison with NaN is false.
NumLt(x, y) ==
    IF IsNaN(x) \/ IsNaN(y) THEN FALSE
    ELSE IF ~IsFinite(x) \/ ~IsFinite(y)
         THEN x # y /\ (x = NegInf \/ y = PosInf)
    ELSE FracLt(x[1], x[2], y[1], y[2])

\* x == y; NaN is equal to nothing, itself included.
NumEq(x, y) == ~IsNaN(x) /\ ~IsNaN(y) /\ x = y

RECURSIVE NumSum(_)
NumSum(s) == IF s = <<>> THEN <<0, 1>> ELSE NumAdd(Head(s), NumSum(Tail(s)))

\* ------------------------------------------------------------------
\* Python slices and arrays
\* ------------------------------------------------------------------

At(s, i) == s[i + 1]

\* The start or stop of a slice over a length-n sequence, as CPython adjusts it.
AdjustIndex(v, n, step) ==
    IF v < 0 THEN (IF v + n < 0 THEN (IF step < 0 THEN -1 ELSE 0) ELSE v + n)
    ELSE IF v >= n THEN (IF step < 0 THEN n - 1 ELSE n)
    ELSE v

\* The 0-based positions s[start:stop:step] selects, in order.
SliceIndices(n, start, stop, step) ==
    LET lo  == AdjustIndex(start, n, step)
        hi  == AdjustIndex(stop, n, step)
        cnt == IF step > 0
               THEN (IF hi > lo THEN (hi - lo + step - 1) \div step ELSE 0)
               ELSE (IF hi < lo THEN (lo - hi - step - 1) \div (-step) ELSE 0)
    IN  [k \in 1..cnt |-> lo + (k - 1) * step]

\* s[start:stop:step]
Slice(s, start, stop, step) ==
    LET idx == SliceIndices(Len(s), start, stop, step)
    IN  [k \in 1..Len(idx) |-> At(s, idx[k])]

Mat(rows, cols, flat) == [rows |-> rows, cols |-> cols, flat |-> flat]

\* arr[i, j]
Get(arr, i, j) == At(arr.flat, i * arr.cols + j)

\* arr[i, j] = v
Put(arr, i, j, v) == [arr EXCEPT !.flat[i * arr.cols + j + 1] = v]

\* An in-place write to the buffer the local name `local` is bound to.  The
\* caller's array, field `caller`, is that same buffer unless the function
\* bound the local name to a copy.
WriteThrough(st, local, caller, new) ==
    IF st.aliased THEN [st EXCEPT ![local] = new, ![caller] = new]
    ELSE [st EXCEPT ![local] = new]

NoMat == Mat(0, 0, <<>>)

\* ------------------------------------------------------------------
\* State
\* ------------------------------------------------------------------

VARIABLES
    comp,       \* the component the run exercises
    self_c,     \* LazyToeplitz._c
    self_r,     \* LazyToeplitz._r
    key,        \* the last query, <<i0, i1, j0, j1>>; <<>> before the first
    block       \* what __getitem__ returned for it

tzVars == <<self_c, self_r, key, block>>

VARIABLES
    arr,        \* the array the caller passes to a diagonal utility
    ret,        \* what the utility returned
    call        \* the call made: [op, k, values, wrap, explicit, copy]

dgVars == <<arr, ret, call>>

VARIABLES
    ic,         \* iterative_correction_symmetric(x, ...): its arguments and locals
    ic_k,       \* the same call on k * x
    scale,      \* the factor k
    ic_run      \* the successive states of a call, where a whole run is followed

icVars == <<ic, ic_k, scale, ic_run>>

VARIABLES
    oe          \* observed_over_expected(matrix, mask, ratio): arguments and locals

oeVars == <<oe>>

VARIABLES
    insul       \* insul_diamond(mat, window, ignore_diags): arguments and locals

insVars == <<insul>>

VARIABLES
    fib         \* find_insulating_boundaries(c, window_bp, max_bad_bins): arguments and locals

fibVars == <<fib>>

VARIABLES
    entry       \* a call of normalize_score, logbins or LazyToeplitz(c, r)

entVars == <<entry>>

vars == <<comp, tzVars, dgVars, icVars, oeVars, insVars, fibVars, entVars>>

\* What a component's variables hold in a run that exercises another one.
ToeplitzIdle == self_c = <<>> /\ self_r = <<>> /\ key = <<>> /\ block = NoMat

NoCall == [op |-> "none", k |-> 0, values |-> <<>>, wrap |-> FALSE,
           explicit |-> FALSE, copy |-> FALSE]

DiagIdle == arr = NoMat /\ ret = NoMat /\ call = NoCall

NoRun == [pc |-> "none"]

ICIdle == ic = NoRun /\ ic_k = NoRun /\ scale = 0 /\ ic_run = <<>>

OEIdle == oe = NoRun

InsulIdle == insul = NoRun

FIBIdle == fib = NoRun

EntryIdle == entry = NoRun

\* The components added after the first five are idle.
OthersIdle == FIBIdle /\ EntryIdle

otherVars == <<fibVars, entVars>>

\* ------------------------------------------------------------------
\* Diagonal utilities
\* ------------------------------------------------------------------

\* Bound: the largest N of the N x N arrays drawn.
MaxN == 4

\* flat[idx] = values, as numpy's flat iterator assigns: a scalar (a
\* one-element sequence here) or a short vector is repeated, a long one cut.
FlatAssign(flat, idx, values) ==
    [p \in 1..Len(flat) |->
        IF \E t \in 1..Len(idx) : idx[t] = p - 1
        THEN LET t == CHOOSE t \in 1..Len(idx) : idx[t] = p - 1
             IN  values[((t - 1) % Len(values)) + 1]
        ELSE flat[p]]

\* diag_indices with the slice run to the end of the buffer.
diag_indices_unbounded(a, i) ==
    SliceIndices(Len(a.flat), Max(i, -a.cols * i), Len(a.flat), a.cols + 1)

\* The flat positions get_diag and set_diag address for diagonal i.
diag_indices(a, i) ==
    SliceIndices(Len(a.flat), Max(i, -a.cols * i), Max(0, a.cols - i) * a.cols, a.cols + 1)

\* get_diag(arr, i)
get_diag(a, i) == LET idx == diag_indices(a, i) IN [t \in 1..Len(idx) |-> At(a.flat, idx[t])]

\* The array set_diag leaves in the buffer it writes to.
set_diag(a, x, i) == [a EXCEPT !.flat = FlatAssign(a.flat, diag_indices(a, i), x)]

\* The flat positions fill_diagonal addresses: start = k, step = cols + 1 and
\* end = start + cols*cols, or the end of the buffer when wrap is set.
fill_diagonal_indices(a, k, wrap) ==
    LET start == k
        step  == a.cols + 1
        end   == IF wrap THEN Len(a.flat) ELSE start + a.cols * a.cols
    IN  SliceIndices(Len(a.flat), start, end, step)

\* The array fill_diagonal leaves in the buffer it writes to.
fill_diagonal(a, values, k, wrap) ==
    [a EXCEPT !.flat = FlatAssign(a.flat, fill_diagonal_indices(a, k, wrap), values)]

\* arr[np.isnan(arr)] = value
fill_na(a, value) ==
    [a EXCEPT !.flat = [p \in 1..Len(a.flat) |-> IF IsNaN(a.flat[p]) THEN value ELSE a.flat[p]]]

\* arr[np.isposinf(arr)] = pos_value; arr[np.isneginf(arr)] = neg_value
fill_inf(a, pos_value, neg_value) ==
    [a EXCEPT !.flat = [p \in 1..Len(a.flat) |->
        IF IsPosInf(a.flat[p]) THEN pos_value
        ELSE IF IsNegInf(a.flat[p]) THEN neg_value
        ELSE a.flat[p]]]

\* arr[~np.isfinite(arr)] = value
fill_nainf(a, value) ==
    [a EXCEPT !.flat = [p \in 1..Len(a.flat) |-> IF IsFinite(a.flat[p]) THEN a.flat[p] ELSE value]]

\* default_copy with fill_diagonal's default turned to in-place.
default_copy_fill_inplace(op) == op \notin {"set_diag", "fill_diagonal"}

\* The copy parameter's default in each signature: set_diag(..., copy=False),
\* the others copy=True.
default_copy(op) == op # "set_diag"

\* The N x N array whose entries are all different: 1, 2, ..., N*N.
IndexMat(n) == Mat(n, n, [p \in 1..(n * n) |-> Num(p)])

SpecialVals == {Num(1), NaN, PosInf, NegInf}

\* The arrays the utilities are called on.
DiagArrays ==
    { IndexMat(n) : n \in 1..MaxN }
    \cup { Mat(2, 2, f) : f \in [1..4 -> SpecialVals] }

\* What is written to a diagonal of given length: a scalar, or a vector of
\* that length with entries that differ from one another and from the array's.
DiagValues(len) ==
    { <<Num(-1)>> } \cup (IF len > 0 THEN { [t \in 1..len |-> Num(-10 - t)] } ELSE {})

\* How the caller passes copy: not at all, or explicitly.
CopyArgs(op) ==
    { [explicit |-> FALSE, copy |-> default_copy(op)] }
    \cup { [explicit |-> TRUE, copy |-> b] : b \in BOOLEAN }

InitDiag ==
    /\ comp = "diag"
    /\ arr \in DiagArrays
    /\ ret = NoMat
    /\ call = NoCall
    /\ ToeplitzIdle
    /\ ICIdle
    /\ OEIdle
    /\ InsulIdle
    /\ OthersIdle

\* A utility that writes: with copy it works on arr.copy() and the caller's
\* array stays as it is, without it the caller's array is the buffer written.
\* The model follows one call per array.
Returns(op, k, values, wrap, c, result) ==
    /\ call = NoCall
    /\ call' = [op |-> op, k |-> k, values |-> values, wrap |-> wrap,
                explicit |-> c.explicit, copy |-> c.copy]
    /\ ret' = result
    /\ arr' = IF c.copy THEN arr ELSE result
    /\ UNCHANGED <<comp, tzVars, icVars, oeVars, insVars, otherVars>>

GetDiag ==
    /\ comp = "diag"
    /\ call = NoCall
    /\ \E i \in (-arr.rows)..arr.rows :
          /\ call' = [NoCall EXCEPT !.op = "get_diag", !.k = i, !.values = get_diag(arr, i)]
          /\ UNCHANGED <<arr, ret>>
    /\ UNCHANGED <<comp, tzVars, icVars, oeVars, insVars, otherVars>>

SetDiag ==
    /\ comp = "diag"
    /\ \E i \in (-arr.rows)..arr.rows, c \in CopyArgs("set_diag") :
       \E x \in DiagValues(arr.rows - Abs(i)) :
          Returns("set_diag", i, x, FALSE, c, set_diag(arr, x, i))

FillDiagonal ==
    /\ comp = "diag"
    /\ \E k \in (-arr.rows)..arr.rows, wrap \in BOOLEAN, c \in CopyArgs("fill_diagonal") :
       \E values \in DiagValues(arr.rows - Abs(k)) :
          Returns("fill_diagonal", k, values, wrap, c, fill_diagonal(arr, values, k, wrap))

FillValues == {Num(0), Num(7)}

FillNa ==
    /\ comp = "diag"
    /\ \E value \in FillValues, c \in CopyArgs("fill_na") :
          Returns("fill_na", 0, <<value>>, FALSE, c, fill_na(arr, value))

FillInf ==
    /\ comp = "diag"
    /\ \E pos_value, neg_value \in FillValues, c \in CopyArgs("fill_inf") :
          Returns("fill_inf", 0, <<pos_value, neg_value>>, FALSE, c,
                  fill_inf(arr, pos_value, neg_value))

FillNaInf ==
    /\ comp = "diag"
    /\ \E value \in FillValues, c \in CopyArgs("fill_nainf") :
          Returns("fill_nainf", 0, <<value>>, FALSE, c, fill_nainf(arr, value))

NextDiag == GetDiag \/ SetDiag \/ FillDiagonal \/ FillNa \/ FillInf \/ FillNaInf

SpecDiag == InitDiag /\ [][NextDiag]_vars

\* What a call writes along a diagonal of the given length: the scalar
\* repeated, or the vector.
Written(values, len) == [t \in 1..len |-> values[((t - 1) % Len(values)) + 1]]

\* Array b is array a with diagonal k (the entries (r, c) with c - r = k)
\* holding `values` and every other entry as in a.
DiagonalReplaced(a, b, k, values) ==
    /\ b.rows = a.rows /\ b.cols = a.cols /\ Len(b.flat) = Len(a.flat)
    /\ \A r \in 0..(a.rows - 1), c \in 0..(a.cols - 1) :
          Get(b, r, c) = IF c - r = k
                         THEN values[((IF k >= 0 THEN r ELSE c) % Len(values)) + 1]
                         ELSE Get(a, r, c)

\* A step in which `op` is called with an offset |k| < N.
DiagCallStep(op) ==
    /\ call = NoCall
    /\ call'.op = op
    /\ Abs(call'.k) < arr.rows

\* C7: after set_diag(arr, x, k) with |k| < N and x a scalar or a vector of
\* length N-|k|, get_diag of the written array at k returns x, and every
\* entry off diagonal k is as before; without copy the written array is the
\* caller's.
C7_SetDiagRoundTrip ==
    [][DiagCallStep("set_diag") =>
        /\ get_diag(ret', call'.k) = Written(call'.values, arr.rows - Abs(call'.k))
        /\ DiagonalReplaced(arr, ret', call'.k, call'.values)
        /\ ~call'.copy => arr' = ret']_vars

\* set_diag has written a vector to a lower diagonal in place.
C7_Witness ==
    /\ call.op = "set_diag" /\ call.k < 0 /\ Len(call.values) > 1 /\ ~call.copy
    /\ get_diag(arr, call.k) = call.values

\* C8: fill_diagonal(arr, values, k) with wrap=False and |k| < N writes the
\* values to exactly the entries (r, c) with c - r = k, upper diagonals for
\* k > 0 and lower ones for k < 0, leaves every other entry as it was, and
\* get_diag at k reads the values back.
C8_FillDiagonalWritesDiagonal ==
    [][(DiagCallStep("fill_diagonal") /\ ~call'.wrap) =>
        /\ DiagonalReplaced(arr, ret', call'.k, call'.values)
        /\ get_diag(ret', call'.k) = Written(call'.values, arr.rows - Abs(call'.k))]_vars

\* ------------------------------------------------------------------
\* iterative_correction_symmetric
\* ------------------------------------------------------------------

\* Bound: the largest N of the N x N matrices balanced.
MaxICN == 2

\* Bound: the largest max_iter passed.
MaxIter == 2

\* The entries of the matrices balanced.
Counts == {0, 1}

\* np.mean of a 1-D array; the mean of an empty array is NaN.
Mean(v) == NumDiv(NumSum(v), Num(Len(v)))

\* np.var of a 1-D array.
Var(v) ==
    LET m == Mean(v)
    IN  Mean([i \in 1..Len(v) |-> NumMul(NumSub(v[i], m), NumSub(v[i], m))])

\* v[keep], for a boolean array keep.
RECURSIVE Select(_, _)
Select(v, keep) ==
    IF v = <<>> THEN <<>>
    ELSE (IF Head(keep) THEN <<Head(v)>> ELSE <<>>) \o Select(Tail(v), Tail(keep))

\* np.sum(m, axis=1)
RowSums(m) ==
    [i \in 1..m.rows |-> NumSum([j \in 1..m.cols |-> Get(m, i - 1, j - 1)])]

\* The damping factor of line 544.
Damping == Q(4, 5)

\* Lines 523-529: the copy of x with the first ignore_diags diagonals zeroed.
ics_zero_diags(x, ignore_diags) ==
    LET N == x.rows
    IN  [x EXCEPT !.flat = [p \in 1..Len(x.flat) |->
            LET r == (p - 1) \div x.cols
                c == (p - 1) % x.cols
            IN  IF \E d \in 0..(ignore_diags - 1) : \E j \in 0..(N - d - 1) :
                      (r = j /\ c = j + d) \/ (r = j + d /\ c = j)
                THEN Num(0)
                ELSE x.flat[p]]]

\* Line 523: _x = x.copy(), so that _x and x are different buffers.
ics_copies_x == TRUE

\* Lines 521-535: the state on entry to the loop.
ics_start(st) ==
    LET x0 == ics_zero_diags(st.x, st.ignore_diags)
        s0 == RowSums(x0)
    IN  [st EXCEPT !.pc = IF st.max_iter > 0 THEN "loop" ELSE "renorm",
                   !.aliased = ~ics_copies_x,
                   !.x = IF ics_copies_x THEN @ ELSE x0,
                   !.x_ = x0,
                   !.totalBias = [i \in 1..st.x.rows |-> Num(1)],
                   !.converged = FALSE,
                   !.iternum = 0,
                   !.mask = [i \in 1..Len(s0) |-> NumEq(s0[i], Num(0))]]

\* ics_damped with the row sums not divided by their mean.
ics_damped_unnormalised(x_) ==
    LET s0   == RowSums(x_)
        mask == [i \in 1..Len(s0) |-> NumEq(s0[i], Num(0))]
        s1   == [i \in 1..Len(s0) |-> IF mask[i] THEN Num(1) ELSE s0[i]]
    IN  [i \in 1..Len(s0) |-> NumAdd(NumMul(NumSub(s1[i], Num(1)), Damping), Num(1))]

\* Lines 537-545: the damped factors s of one iteration.
ics_damped(x_) ==
    LET s0   == RowSums(x_)
        mask == [i \in 1..Len(s0) |-> NumEq(s0[i], Num(0))]
        m    == Mean(Select(s0, [i \in 1..Len(s0) |-> ~mask[i]]))
        s1   == [i \in 1..Len(s0) |-> IF mask[i] THEN Num(1) ELSE NumDiv(s0[i], m)]
    IN  [i \in 1..Len(s0) |-> NumAdd(NumMul(NumSub(s1[i], Num(1)), Damping), Num(1))]

\* ics_iterate without the break of line 561: the loop goes on after the
\* iteration that converged.
ics_iterate_no_break(st) ==
    LET s0   == RowSums(st.x_)
        s    == ics_damped(st.x_)
        crit == Var(s)
        conv == NumLt(Num(0), st.tol) /\ NumLt(crit, st.tol)
        nxt  == IF st.s = <<>> THEN 0 ELSE st.iternum + 1
        new  == [st.x_ EXCEPT !.flat = [p \in 1..Len(st.x_.flat) |->
                    NumDiv(st.x_.flat[p],
                           NumMul(s[((p - 1) \div st.x_.cols) + 1],
                                  s[((p - 1) % st.x_.cols) + 1]))]]
    IN  [WriteThrough(st, "x_", "x", new)
            EXCEPT !.pc = IF nxt + 1 >= st.max_iter THEN "renorm" ELSE "loop",
                   !.iternum = nxt,
                   !.mask = [i \in 1..Len(s0) |-> NumEq(s0[i], Num(0))],
                   !.s = s,
                   !.totalBias = [i \in 1..Len(s) |-> NumMul(st.totalBias[i], s[i])],
                   !.crit = crit,
                   !.converged = conv]

\* Lines 536-561: one pass of the loop body, for the next iternum.
ics_iterate(st) ==
    LET s0   == RowSums(st.x_)
        s    == ics_damped(st.x_)
        crit == Var(s)
        conv == NumLt(Num(0), st.tol) /\ NumLt(crit, st.tol)
        nxt  == IF st.s = <<>> THEN 0 ELSE st.iternum + 1
        new  == [st.x_ EXCEPT !.flat = [p \in 1..Len(st.x_.flat) |->
                    NumDiv(st.x_.flat[p],
                           NumMul(s[((p - 1) \div st.x_.cols) + 1],
                                  s[((p - 1) % st.x_.cols) + 1]))]]
    IN  [WriteThrough(st, "x_", "x", new)
            EXCEPT !.pc = IF conv \/ nxt + 1 >= st.max_iter THEN "renorm" ELSE "loop",
                   !.iternum = nxt,
                   !.mask = [i \in 1..Len(s0) |-> NumEq(s0[i], Num(0))],
                   !.s = s,
                   !.totalBias = [i \in 1..Len(s) |-> NumMul(st.totalBias[i], s[i])],
                   !.crit = crit,
                   !.converged = conv]

\* ics_renorm with the bias vector left undivided.
ics_renorm_bias_kept(st) ==
    LET corr == Mean(Select(st.totalBias, [i \in 1..Len(st.mask) |-> ~st.mask[i]]))
    IN  [st EXCEPT !.pc = "done",
                   !.x_ = [st.x_ EXCEPT !.flat = [p \in 1..Len(st.x_.flat) |->
                              NumMul(NumMul(st.x_.flat[p], corr), corr)]]]

\* Lines 563-568: the renormalisation and the return.
ics_renorm(st) ==
    LET corr == Mean(Select(st.totalBias, [i \in 1..Len(st.mask) |-> ~st.mask[i]]))
    IN  [st EXCEPT !.pc = "done",
                   !.x_ = [st.x_ EXCEPT !.flat = [p \in 1..Len(st.x_.flat) |->
                              NumMul(NumMul(st.x_.flat[p], corr), corr)]],
                   !.totalBias = [i \in 1..Len(st.totalBias) |-> NumDiv(st.totalBias[i], corr)]]

\* The next step of a call, whatever it is; a finished call stays as it is.
ics_step(st) ==
    IF st.pc = "start" THEN ics_start(st)
    ELSE IF st.pc = "loop" THEN ics_iterate(st)
    ELSE IF st.pc = "renorm" THEN ics_renorm(st)
    ELSE st

\* The call iterative_correction_symmetric(x, max_iter, ignore_diags, tol).
ics_call(x, max_iter, ignore_diags, tol) ==
    [pc |-> "start", x |-> x, max_iter |-> max_iter, ignore_diags |-> ignore_diags,
     tol |-> tol, x_ |-> NoMat, aliased |-> FALSE, totalBias |-> <<>>, s |-> <<>>,
     mask |-> <<>>, iternum |-> 0, converged |-> FALSE, crit |-> Num(0)]

\* The nonnegative symmetric N x N matrices with entries in Counts.
SymmetricMatrices(N) ==
    { Mat(N, N, [p \in 1..(N * N) |->
            Num(u[<<Min((p - 1) \div N, (p - 1) % N), Max((p - 1) \div N, (p - 1) % N)>>])]) :
        u \in [{ij \in (0..(N - 1)) \X (0..(N - 1)) : ij[1] <= ij[2]} -> Counts] }

\* A symmetric matrix whose entries above the diagonal all differ.
DistinctSymmetric(N) ==
    Mat(N, N, [p \in 1..(N * N) |->
        Num(1 + Min((p - 1) \div N, (p - 1) % N) * N + Max((p - 1) \div N, (p - 1) % N))])

\* The matrices balanced: every symmetric matrix over Counts, and one with
\* entries that all differ.
ICMatrices(N) == SymmetricMatrices(N) \cup {DistinctSymmetric(N)}

\* k * x
Scaled(x, k) == [x EXCEPT !.flat = [p \in 1..Len(x.flat) |-> NumMul(Num(k), x.flat[p])]]

Tolerances == {Num(0), Q(1, 25), Q(1, 10)}

ScaleFactors == {2, 3}

InitIC ==
    /\ comp = "ic"
    /\ \E N \in 1..MaxICN : \E x \in ICMatrices(N) :
       \E max_iter \in 0..MaxIter, ignore_diags \in 0..2, tol \in Tolerances :
          /\ scale \in ScaleFactors
          /\ ic = ics_call(x, max_iter, ignore_diags, tol)
          /\ ic_k = ics_call(Scaled(x, scale), max_iter, ignore_diags, tol)
    /\ ic_run = <<>>
    /\ ToeplitzIdle
    /\ DiagIdle
    /\ OEIdle
    /\ InsulIdle
    /\ OthersIdle

\* No number of the call's locals lies beyond MaxInt.
Representable(st) ==
    /\ \A p \in 1..Len(st.x_.flat) : st.x_.flat[p] # Huge
    /\ \A i \in 1..Len(st.totalBias) : st.totalBias[i] # Huge
    /\ \A i \in 1..Len(st.s) : st.s[i] # Huge
    /\ st.crit # Huge

\* The two calls advance together, each by its own next step.
ICAdvance(pc) ==
    /\ comp = "ic"
    /\ ic.pc = pc
    /\ ic' = ics_step(ic)
    /\ ic_k' = ics_step(ic_k)
    /\ Representable(ic') /\ Representable(ic_k')
    /\ scale' = scale
    /\ ic_run' = ic_run
    /\ UNCHANGED <<comp, tzVars, dgVars, oeVars, insVars, otherVars>>

ICStart == ICAdvance("start")

ICIterate == ICAdvance("loop")

ICRenorm == ICAdvance("renorm")

NextIC == ICStart \/ ICIterate \/ ICRenorm

SpecIC == InitIC /\ [][NextIC]_vars

BothDone == ic.pc = "done" /\ ic_k.pc = "done"

\* C3 as stated: balancing k*M returns the same corrected matrix as
\* balancing M, and the bias vector of M scaled by 1/sqrt(k) (bias_k is
\* positive, so bias_k = bias/sqrt(k) is k * bias_k^2 = bias^2).
C3_AsStated ==
    BothDone =>
        /\ ic_k.x_ = ic.x_
        /\ \A i \in 1..Len(ic.totalBias) :
              NumMul(Num(scale), NumMul(ic_k.totalBias[i], ic_k.totalBias[i]))
                  = NumMul(ic.totalBias[i], ic.totalBias[i])

\* C3 as amended: the two calls take the same steps, balancing k*M returns k
\* times the corrected matrix of M, the same bias vector and the same report.
C3_ScaledInputScalesOutput ==
    /\ ic_k.pc = ic.pc
    /\ BothDone =>
        /\ ic_k.x_ = Scaled(ic.x_, scale)
        /\ ic_k.totalBias = ic.totalBias
        /\ ic_k.converged = ic.converged
        /\ ic_k.iternum = ic.iternum

\* Both calls have returned after an iteration that changed the matrix.
C3_Witness ==
    /\ BothDone
    /\ ic.iternum >= 1
    /\ \E i \in 1..Len(ic.totalBias) : ic.totalBias[i] # Num(1)
    /\ ic_k.x_ # ic.x_

\* The successive states of a call, from st to the return; the run is cut
\* short before a step that leads to a number beyond MaxInt.
RECURSIVE ics_run(_)
ics_run(st) ==
    IF st.pc = "done" \/ ~Representable(ics_step(st)) THEN <<st>>
    ELSE <<st>> \o ics_run(ics_step(st))

\* One call, with its whole run laid out.
InitICRun ==
    /\ comp = "ic_run"
    /\ \E N \in 1..MaxICN : \E x \in ICMatrices(N) :
       \E max_iter \in 0..MaxIter, ignore_diags \in 0..2, tol \in Tolerances :
          /\ ic = ics_call(x, max_iter, ignore_diags, tol)
          /\ ic_run = ics_run(ic)
    /\ ic_k = NoRun
    /\ scale = 0
    /\ ToeplitzIdle
    /\ DiagIdle
    /\ OEIdle
    /\ InsulIdle
    /\ OthersIdle

\* The call takes its next step.
ICRunAdvance(pc) ==
    /\ comp = "ic_run"
    /\ ic.pc = pc
    /\ \E k \in 1..(Len(ic_run) - 1) :
          /\ ic = ic_run[k]
          /\ ic' = ic_run[k + 1]
    /\ UNCHANGED <<ic_k, scale, ic_run>>
    /\ UNCHANGED <<comp, tzVars, dgVars, oeVars, insVars, otherVars>>

ICRunStart == ICRunAdvance("start")

ICRunIterate == ICRunAdvance("loop")

ICRunRenorm == ICRunAdvance("renorm")

NextICRun == ICRunStart \/ ICRunIterate \/ ICRunRenorm

\* The function is sequential code: a call that can take a step takes it.
SpecICLive == InitICRun /\ [][NextICRun]_vars /\ WF_vars(NextICRun)

\* The number of passes of the loop body made so far.
Iterations(st) == IF st.s = <<>> THEN 0 ELSE st.iternum + 1

\* The call is at the end of a run that was cut short.
Overflows == ic.pc # "done" /\ ic = ic_run[Len(ic_run)]

PositiveTol(st) == NumLt(Num(0), st.tol)

\* C13: the balancing loop ends after at most max_iter iterations and the
\* call returns.  With tol <= 0 exactly max_iter iterations run and
\* converged is false.  With tol > 0 converged is true exactly when an
\* iteration produced variance(s') < tol; the loop stops at the first such
\* iteration and no iteration runs after it.
C13_LoopTerminates ==
    /\ <>(ic.pc = "done" \/ Overflows)
    /\ [](Iterations(ic) <= ic.max_iter)
    /\ [](ic.pc = "loop" => ~ic.converged)
    /\ [](ic.pc \in {"renorm", "done"} =>
            /\ ~PositiveTol(ic) => (Iterations(ic) = ic.max_iter /\ ~ic.converged)
            /\ ~ic.converged => Iterations(ic) = ic.max_iter
            /\ ic.converged => (PositiveTol(ic) /\ NumLt(Var(ic.s), ic.tol)))
    /\ [][ /\ ic.pc = "loop" =>
                /\ Iterations(ic') = Iterations(ic) + 1
                /\ ic'.converged = (PositiveTol(ic) /\ NumLt(Var(ic'.s), ic.tol))
                /\ ic'.converged => ic'.pc = "renorm"
           /\ ic.pc = "renorm" =>
                /\ ic'.pc = "done"
                /\ ic'.converged = ic.converged
                /\ Iterations(ic') = Iterations(ic)
         ]_vars

\* A call with a positive tolerance has returned converged with an iteration
\* to spare and a bias vector that is not all ones.
C13_Witness ==
    /\ ic.pc = "done"
    /\ ic.converged
    /\ Iterations(ic) < ic.max_iter
    /\ ic.totalBias[1] # Num(1)

\* The indices reachable from those of S along non-zero entries of m, in n steps.
RECURSIVE Connected(_, _, _)
Connected(m, S, n) ==
    IF n = 0 THEN S
    ELSE Connected(m, S \cup { j \in 0..(m.rows - 1) :
                                  \E i \in S : NumLt(Num(0), Get(m, i, j)) }, n - 1)

Irreducible(m) == Connected(m, {0}, m.rows) = 0..(m.rows - 1)

\* No row is excluded: every row sum of the matrix balanced is non-zero.
NoExcludedRows(m) == \A i \in 1..m.rows : RowSums(m)[i] # Num(0)

\* The matrix balanced is irreducible and has no excluded row.
WellPosed(st) ==
    LET m == ics_zero_diags(st.x, st.ignore_diags)
    IN  Irreducible(m) /\ NoExcludedRows(m)

NumAbs(x) == <<Abs(x[1]), x[2]>>

\* |x - y| <= tol
Within(x, y, tol) == ~NumLt(tol, NumAbs(NumSub(x, y)))

\* C4 as stated: for an irreducible matrix with no excluded rows, once the
\* call has returned with converged=true all row sums of the corrected
\* matrix agree within tol and the mean of the bias vector is within tol of 1.
C4_AsStated ==
    (ic.pc = "done" /\ ic.converged /\ WellPosed(ic)) =>
        /\ \A i, j \in 1..ic.x_.rows :
              Within(RowSums(ic.x_)[i], RowSums(ic.x_)[j], ic.tol)
        /\ Within(Mean(ic.totalBias), Num(1), ic.tol)

\* The row sums of m divided by their mean.
NormalisedRowSums(m) ==
    LET r == RowSums(m) IN [i \in 1..Len(r) |-> NumDiv(r[i], Mean(r))]

\* C4 as amended: for an irreducible matrix with no excluded rows, the
\* iteration that sets converged=true starts from a matrix whose row sums,
\* divided by their mean, have variance below tol/0.64 (that of the damped
\* factors is below tol), and the bias vector returned has mean exactly 1.
C4_ConvergedMeansSmallVariance ==
    [][(WellPosed(ic) /\ ic'.converged) =>
        /\ ic.pc = "loop" =>
              NumLt(NumMul(Var(NormalisedRowSums(ic.x_)), NumMul(Damping, Damping)), ic.tol)
        /\ ic'.pc = "done" => Mean(ic'.totalBias) = Num(1)]_vars

\* A call on a well-posed matrix has converged in its second iteration and
\* returned a bias vector that is not all ones.
C4_Witness ==
    /\ ic.pc = "done" /\ ic.converged /\ WellPosed(ic)
    /\ ic.iternum = 1
    /\ ic.totalBias[1] # Num(1)
    /\ Mean(ic.totalBias) = Num(1)

\* Every row of the matrix balanced is excluded.
AllExcluded(st) ==
    LET m == ics_zero_diags(st.x, st.ignore_diags)
    IN  \A i \in 1..m.rows : RowSums(m)[i] = Num(0)

\* C5: when every row sum of the matrix balanced is zero the call fails; it
\* does not return, and nothing it returns holds NaN.
C5_AllExcludedFails ==
    ic.pc = "done" =>
        /\ ~AllExcluded(ic)
        /\ \A p \in 1..Len(ic.x_.flat) : ~IsNaN(ic.x_.flat[p])
        /\ \A i \in 1..Len(ic.totalBias) : ~IsNaN(ic.totalBias[i])

\* The bookkeeping of a call: the damped factors and the bias entries are
\* strictly positive, the corrected matrix times the bias of its row and of
\* its column is the input with its ignored diagonals zeroed, and the
\* corrected matrix is symmetric.
BiasBooked(st) ==
    LET N  == st.x.rows
        x0 == ics_zero_diags(st.x, st.ignore_diags)
    IN  /\ \A i \in 1..Len(st.s) : NumLt(Num(0), st.s[i])
        /\ \A i \in 1..N : NumLt(Num(0), st.totalBias[i])
        /\ \A i, j \in 0..(N - 1) :
              /\ NumEq(NumMul(NumMul(Get(st.x_, i, j), st.totalBias[i + 1]),
                              st.totalBias[j + 1]),
                       Get(x0, i, j))
              /\ NumEq(Get(st.x_, i, j), Get(st.x_, j, i))

\* C16: for a nonnegative symmetric input, after every iteration and after
\* the final renormalisation every damped factor and every bias entry is
\* strictly positive, corrected[i,j] * bias[i] * bias[j] is x[i,j] outside the
\* zeroed diagonals and 0 on them, and the corrected matrix is symmetric.
C16_BiasBookkeeping ==
    (comp = "ic" /\ ic.pc \in {"loop", "renorm", "done"}) => BiasBooked(ic)

\* ------------------------------------------------------------------
\* logbins and observed_over_expected
\* ------------------------------------------------------------------

\* Bound: the largest N of the N x N matrices normalised.
MaxOEN == 4

\* int(log(hi / lo) / log(ratio)): the largest n with ratio^n <= hi / lo.
RECURSIVE logbins_N(_, _, _, _)
logbins_N(lo, hi, ratio, n) ==
    IF (ratio[1] ^ (n + 1)) * lo <= hi * (ratio[2] ^ (n + 1))
    THEN logbins_N(lo, hi, ratio, n + 1)
    ELSE n

\* np.rint of point t of np.logspace(log10(lo), log10(hi), m + 1), which is
\* lo^((m-t)/m) * hi^(t/m): the integer r within 1/2 of it.
logspace_rint(lo, hi, m, t) ==
    IF m = 0 THEN lo
    ELSE CHOOSE r \in lo..hi :
            /\ (2 * r - 1) ^ m <= (2 ^ m) * (lo ^ (m - t)) * (hi ^ t)
            /\ (2 ^ m) * (lo ^ (m - t)) * (hi ^ t) < (2 * r + 1) ^ m

\* np.sort(np.unique(S)) for a set of integers.
RECURSIVE SortedSeq(_)
SortedSeq(S) ==
    IF S = {} THEN <<>>
    ELSE LET lowest == CHOOSE v \in S : \A w \in S : v <= w
         IN  <<lowest>> \o SortedSeq(S \ {lowest})

\* The body of logbins once N is known: the edges, or the exception the
\* function ends with.
logbins_data(lo, hi, N) ==
    LET data10 == SortedSeq({ logspace_rint(lo, hi, N - 1, t) : t \in 0..(N - 1) })
    IN  IF data10 = <<>> THEN [error |-> "IndexError", edges |-> <<>>]
        ELSE IF data10[1] # lo \/ data10[Len(data10)] # hi
             THEN [error |-> "AssertionError", edges |-> <<>>]
        ELSE [error |-> "", edges |-> data10]

\* logbins(lo, hi, ratio): the edges, or the exception the function ends with.
logbins(lo, hi, ratio) == logbins_data(lo, hi, logbins_N(lo, hi, ratio, 0))

\* mask[:, None] * mask[None, :]
Outer(mask) ==
    Mat(Len(mask), Len(mask),
        [p \in 1..(Len(mask) * Len(mask)) |->
            mask[((p - 1) \div Len(mask)) + 1] /\ mask[((p - 1) % Len(mask)) + 1]])

\* Line 462: data = np.array(matrix, ...), a new buffer.
ooe_copies_matrix == TRUE

\* Lines 452-469: the locals on entry to the loop over the bins, or the
\* exception raised before it.
ooe_start(st) ==
    LET N      == st.matrix.rows
        mask2d == IF st.mask.ndim = 1
                  THEN (IF Len(st.mask.v1) > 0 THEN Outer(st.mask.v1) ELSE NoMat)
                  ELSE st.mask.v2
        lb     == logbins(1, N, st.ratio)
    IN  IF st.mask.ndim \notin {1, 2}
        THEN [st EXCEPT !.pc = "raised", !.error = "ValueError"]
        ELSE IF lb.error # ""
        THEN [st EXCEPT !.pc = "raised", !.error = lb.error,
                        !.mask2d = mask2d, !.data = st.matrix,
                        !.aliased = ~ooe_copies_matrix,
                        !.has_mask = Len(mask2d.flat) > 0]
        ELSE [st EXCEPT !.pc = "bins",
                        !.mask2d = mask2d,
                        !.data = st.matrix,
                        !.aliased = ~ooe_copies_matrix,
                        !.has_mask = Len(mask2d.flat) > 0,
                        !.dist_bins = <<0>> \o lb.edges,
                        !.n_pixels_arr = [b \in 1..Len(lb.edges) |-> 0],
                        !.sum_pixels_arr = [b \in 1..Len(lb.edges) |-> Num(0)],
                        !.bin_idx = 0]

\* The pixels (offset, j) of the lower triangle that the loops of lines
\* 476-478 and 491-493 accept for the bin [lo, hi).
ooe_pixels(st, lo, hi) ==
    { oj \in (lo..(hi - 1)) \X (0..(st.matrix.rows - 1)) :
        /\ oj[2] < st.matrix.rows - oj[1]
        /\ (~st.has_mask \/ Get(st.mask2d, oj[1] + oj[2], oj[2])) }

\* The sum of data[offset + j, j] over a set of pixels.
RECURSIVE SumPixels(_, _)
SumPixels(data, S) ==
    IF S = {} THEN Num(0)
    ELSE LET oj == CHOOSE oj \in S : TRUE
         IN  NumAdd(Get(data, oj[1] + oj[2], oj[2]), SumPixels(data, S \ {oj}))

\* ooe_divide that leaves the upper triangle alone.
ooe_divide_lower_only(data, pixels, mean_pixel) ==
    [data EXCEPT !.flat = [p \in 1..Len(data.flat) |->
        LET r == (p - 1) \div data.cols
            c == (p - 1) % data.cols
        IN  IF r >= c /\ <<r - c, c>> \in pixels
            THEN NumDiv(data.flat[p], mean_pixel)
            ELSE data.flat[p]]]

\* Lines 491-497: the accepted pixels, and their mirror images above the
\* diagonal, divided by mean_pixel.
ooe_divide(data, pixels, mean_pixel) ==
    [data EXCEPT !.flat = [p \in 1..Len(data.flat) |->
        LET r == (p - 1) \div data.cols
            c == (p - 1) % data.cols
        IN  IF (r >= c /\ <<r - c, c>> \in pixels) \/ (c > r /\ <<c - r, r>> \in pixels)
            THEN NumDiv(data.flat[p], mean_pixel)
            ELSE data.flat[p]]]

\* ooe_skips without the test of line 488.
ooe_skips_empty_only(n_pixels, mean_pixel) == n_pixels = 0

\* Lines 485-489: the two tests that end the loop body before the division.
ooe_skips(n_pixels, mean_pixel) ==
    n_pixels = 0 \/ NumEq(mean_pixel, Num(0))

\* Lines 471-497: the loop body for the bin bin_idx.
ooe_bin(st) ==
    LET lo         == st.dist_bins[st.bin_idx + 1]
        hi         == st.dist_bins[st.bin_idx + 2]
        pixels     == ooe_pixels(st, lo, hi)
        sum_pixels == SumPixels(st.data, pixels)
        n_pixels   == Cardinality(pixels)
        mean_pixel == NumDiv(sum_pixels, Num(n_pixels))
        recorded   == [st EXCEPT
                         !.pc = IF st.bin_idx + 1 < Len(st.dist_bins) - 1
                                THEN "bins" ELSE "return",
                         !.bin_idx = IF st.bin_idx + 1 < Len(st.dist_bins) - 1
                                     THEN st.bin_idx + 1 ELSE st.bin_idx,
                         !.n_pixels_arr[st.bin_idx + 1] = n_pixels,
                         !.sum_pixels_arr[st.bin_idx + 1] = sum_pixels]
    IN  IF ooe_skips(n_pixels, mean_pixel) THEN recorded
        ELSE WriteThrough(recorded, "data", "matrix",
                          ooe_divide(st.data, pixels, mean_pixel))

\* Line 499
ooe_return(st) == [st EXCEPT !.pc = "done"]

\* The call observed_over_expected(matrix, mask, dist_bin_edge_ratio).
ooe_call(matrix, mask, ratio) ==
    [pc |-> "start", matrix |-> matrix, mask |-> mask, ratio |-> ratio,
     error |-> "", mask2d |-> NoMat, data |-> NoMat, aliased |-> FALSE,
     has_mask |-> FALSE, dist_bins |-> <<>>, n_pixels_arr |-> <<>>,
     sum_pixels_arr |-> <<>>, bin_idx |-> 0]

\* The symmetric matrix M[i, j] = g(|i - j|), g given as a sequence.
DistanceDecay(g) ==
    Mat(Len(g), Len(g),
        [p \in 1..(Len(g) * Len(g)) |->
            Num(g[Abs(((p - 1) \div Len(g)) - ((p - 1) % Len(g))) + 1])])

\* DistinctSymmetric with zeros on the first off-diagonals.
ZeroBandSymmetric(N) ==
    Mat(N, N, [p \in 1..(N * N) |->
        IF Abs(((p - 1) \div N) - ((p - 1) % N)) = 1 THEN Num(0)
        ELSE DistinctSymmetric(N).flat[p]])

DecayVals == {0, 1, 2}

\* The default mask, np.empty(shape=(0)).  A mask is its number of
\* dimensions with its entries: v1 when it is 1-D, v2 when it is 2-D.
NoMask == [ndim |-> 1, v1 |-> <<>>, v2 |-> NoMat]

\* The per-pixel masks drawn: up to two pixels invalid, or at most one valid.
PixelMasks(N) ==
    { [ndim |-> 2, v1 |-> <<>>, v2 |-> Mat(N, N, [p \in 1..(N * N) |-> p \notin H])] :
        H \in { H \in SUBSET (1..(N * N)) : Cardinality(H) <= 2 } }
    \cup { [ndim |-> 2, v1 |-> <<>>, v2 |-> Mat(N, N, [p \in 1..(N * N) |-> p \in H])] :
        H \in { H \in SUBSET (1..(N * N)) : Cardinality(H) <= 1 } }

BinMasks(N) == { [ndim |-> 1, v1 |-> m, v2 |-> NoMat] : m \in [1..N -> BOOLEAN] }

\* A mask that is neither 1-D nor 2-D.
BadMask == [ndim |-> 3, v1 |-> <<>>, v2 |-> NoMat]

\* The (matrix, mask) pairs normalised: every distance-decay matrix without
\* a mask, and two fixed matrices under every mask drawn.
OEInputs(N) ==
    ({ DistanceDecay(g) : g \in [1..N -> DecayVals] } \X {NoMask, BadMask})
    \cup ({ DistinctSymmetric(N), ZeroBandSymmetric(N) }
          \X ({NoMask} \cup BinMasks(N) \cup PixelMasks(N)))

Ratios == { <<2, 1>>, <<3, 2>>, <<5, 4>> }

InitOE ==
    /\ comp = "oe"
    /\ \E N \in 1..MaxOEN : \E mm \in OEInputs(N) : \E ratio \in Ratios :
          oe = ooe_call(mm[1], mm[2], ratio)
    /\ ToeplitzIdle
    /\ DiagIdle
    /\ ICIdle
    /\ InsulIdle
    /\ OthersIdle

OEStep(pc, next) ==
    /\ comp = "oe"
    /\ oe.pc = pc
    /\ oe' = next
    /\ UNCHANGED <<comp, tzVars, dgVars, icVars, insVars, otherVars>>

OEStart == OEStep("start", ooe_start(oe))

OEBin == OEStep("bins", ooe_bin(oe))

OEReturn == OEStep("return", ooe_return(oe))

NextOE == OEStart \/ OEBin \/ OEReturn

SpecOE == InitOE /\ [][NextOE]_vars

OEDone == comp = "oe" /\ oe.pc = "done"

\* The matrix is M[i, j] = g(|i - j|), g read off its first column.
IsDistanceDecay(m) ==
    \A i, j \in 0..(m.rows - 1) : Get(m, i, j) = Get(m, Abs(i - j), 0)

\* The offsets of bin b (1-based) of the returned edges.
BinOffsets(b) == oe.dist_bins[b]..(oe.dist_bins[b + 1] - 1)

OEBins == 1..(Len(oe.dist_bins) - 1)

\* The number of pixels at offset d below the diagonal, times v.
RECURSIVE WeightedSum(_, _)
WeightedSum(m, D) ==
    IF D = {} THEN Num(0)
    ELSE LET d == CHOOSE d \in D : TRUE
         IN  NumAdd(NumMul(Num(m.rows - d), Get(m, d, 0)), WeightedSum(m, D \ {d}))

RECURSIVE PixelCount(_, _)
PixelCount(m, D) ==
    IF D = {} THEN 0
    ELSE LET d == CHOOSE d \in D : TRUE
         IN  (m.rows - d) + PixelCount(m, D \ {d})

\* The mean of g over the pixels of the bin's diagonals.
DecayBinMean(b) ==
    NumDiv(WeightedSum(oe.matrix, BinOffsets(b)),
           Num(PixelCount(oe.matrix, BinOffsets(b))))

UnmaskedDecayResult ==
    OEDone /\ oe.mask = NoMask /\ IsDistanceDecay(oe.matrix)

\* C9 as stated: for M[i, j] = g(|i - j|) and no mask, every entry of the
\* returned matrix whose distance bin has a non-zero mean equals 1, bins
\* spanning several diagonal offsets included.
C9_AsStated ==
    UnmaskedDecayResult =>
        \A b \in OEBins : \A i, j \in 0..(oe.matrix.rows - 1) :
            (Abs(i - j) \in BinOffsets(b) /\ DecayBinMean(b) # Num(0))
                => Get(oe.data, i, j) = Num(1)

\* C9: for M[i, j] = g(|i - j|) and no mask, every entry of the returned
\* matrix whose distance bin has a non-zero mean equals g(|i - j|) divided
\* by the mean of g over the pixels of the bin; it equals 1 wherever g is
\* constant over the offsets of the bin.
C9_DecayDividedByBinMean ==
    UnmaskedDecayResult =>
        \A b \in OEBins : \A i, j \in 0..(oe.matrix.rows - 1) :
            (Abs(i - j) \in BinOffsets(b) /\ DecayBinMean(b) # Num(0))
                => /\ Get(oe.data, i, j) = NumDiv(Get(oe.matrix, i, j), DecayBinMean(b))
                   /\ (\A d \in BinOffsets(b) :
                          Get(oe.matrix, d, 0) = Get(oe.matrix, Abs(i - j), 0))
                        => Get(oe.data, i, j) = Num(1)

\* A result with a bin of several offsets on which g varies, beside a bin on
\* which g is a non-zero constant.
C9_Witness ==
    /\ UnmaskedDecayResult
    /\ \E b \in OEBins : \E i \in 0..(oe.matrix.rows - 1) :
          /\ Cardinality(BinOffsets(b)) > 1
          /\ i \in BinOffsets(b)
          /\ DecayBinMean(b) # Num(0)
          /\ Get(oe.data, 0, i) # Num(1)
          /\ Get(oe.data, 0, i) = Get(oe.data, i, 0)
    /\ \E b \in OEBins :
          /\ DecayBinMean(b) # Num(0)
          /\ Get(oe.data, 0, oe.dist_bins[b]) = Num(1)

\* The pixels of the lower triangle that are valid under the mask argument.
ValidPixel(r, c) ==
    CASE oe.mask.ndim = 1 /\ oe.mask.v1 = <<>> -> TRUE
      [] oe.mask.ndim = 1 -> oe.mask.v1[r + 1] /\ oe.mask.v1[c + 1]
      [] OTHER -> Get(oe.mask.v2, r, c)

BinValid(b) ==
    { rc \in (0..(oe.matrix.rows - 1)) \X (0..(oe.matrix.rows - 1)) :
        rc[1] >= rc[2] /\ (rc[1] - rc[2]) \in BinOffsets(b) /\ ValidPixel(rc[1], rc[2]) }

RECURSIVE InputSum(_)
InputSum(S) ==
    IF S = {} THEN Num(0)
    ELSE LET rc == CHOOSE rc \in S : TRUE
         IN  NumAdd(Get(oe.matrix, rc[1], rc[2]), InputSum(S \ {rc}))

\* The bin has no valid pixel, or its valid pixels sum to zero.
SkippedBin(b) == BinValid(b) = {} \/ InputSum(BinValid(b)) = Num(0)

\* C10: every distance bin with no valid pixel or a zero mean is returned
\* with all its pixels, in both triangles, equal to the input; its count and
\* sum are reported as computed; and no exception is raised once the loop
\* over the bins has begun.
C10_SkippedBinsUntouched ==
    /\ (comp = "oe" /\ oe.pc = "raised") => oe.dist_bins = <<>>
    /\ OEDone =>
        \A b \in OEBins : SkippedBin(b) =>
            /\ \A i, j \in 0..(oe.matrix.rows - 1) :
                  Abs(i - j) \in BinOffsets(b)
                      => Get(oe.data, i, j) = Get(oe.matrix, i, j)
            /\ oe.n_pixels_arr[b] = Cardinality(BinValid(b))
            /\ oe.sum_pixels_arr[b] = InputSum(BinValid(b))

\* A result with a bin without valid pixels, a bin of valid pixels that sum
\* to zero, and a bin that was divided.
C10_Witness ==
    /\ OEDone
    /\ \E b \in OEBins : BinValid(b) = {} /\ oe.n_pixels_arr[b] = 0
    /\ \E b \in OEBins : BinValid(b) # {} /\ oe.sum_pixels_arr[b] = Num(0)
    /\ oe.data # oe.matrix

\* The call was made with a per-pixel mask.
PixelMaskResult == OEDone /\ oe.mask.ndim = 2

\* The pixels of bin b, in both triangles, that the mask marks valid.
BinValidBoth(b) ==
    { rc \in (0..(oe.matrix.rows - 1)) \X (0..(oe.matrix.rows - 1)) :
        Abs(rc[1] - rc[2]) \in BinOffsets(b) /\ Get(oe.mask.v2, rc[1], rc[2]) }

\* The mean of the input over the valid pixels of bin b.
BinMeanBoth(b) ==
    NumDiv(InputSum(BinValidBoth(b)), Num(Cardinality(BinValidBoth(b))))

\* C15: with a per-pixel mask, in every distance bin with a non-zero mean a
\* pixel of either triangle is divided by the bin mean exactly when the mask
\* marks that pixel valid, every pixel the mask marks invalid is returned
\* equal to the input, whether or not the mask is symmetric, and the sum and
\* the count of the bin are those of its valid pixels in both triangles.
C15_PixelMaskPerPixel ==
    PixelMaskResult =>
        \A b \in OEBins :
            (BinValidBoth(b) # {} /\ BinMeanBoth(b) # Num(0)) =>
                /\ \A i, j \in 0..(oe.matrix.rows - 1) :
                      Abs(i - j) \in BinOffsets(b) =>
                          Get(oe.data, i, j) =
                              IF Get(oe.mask.v2, i, j)
                              THEN NumDiv(Get(oe.matrix, i, j), BinMeanBoth(b))
                              ELSE Get(oe.matrix, i, j)
                /\ oe.n_pixels_arr[b] = Cardinality(BinValidBoth(b))
                /\ oe.sum_pixels_arr[b] = InputSum(BinValidBoth(b))

\* ------------------------------------------------------------------
\* insul_diamond
\* ------------------------------------------------------------------

\* Bound: the largest N of the N x N matrices scored.
MaxInsN == 3

\* The defaults of the signature, line 6.
DefaultWindow == 10

DefaultIgnoreDiags == 2

\* v without its NaN entries.
RECURSIVE DropNaN(_)
DropNaN(v) ==
    IF v = <<>> THEN <<>>
    ELSE (IF IsNaN(Head(v)) THEN <<>> ELSE <<Head(v)>>) \o DropNaN(Tail(v))

\* np.nanmean; NaN when no entry is left.
nanmean(v) == Mean(DropNaN(v))

\* np.sort of an array without NaN.
RECURSIVE SortNums(_)
SortNums(v) ==
    IF v = <<>> THEN <<>>
    ELSE LET i == CHOOSE i \in 1..Len(v) : \A j \in 1..Len(v) : ~NumLt(v[j], v[i])
         IN  <<v[i]>> \o SortNums(SubSeq(v, 1, i - 1) \o SubSeq(v, i + 1, Len(v)))

\* np.nanmedian; NaN when no entry is left.
nanmedian(v) ==
    LET sorted == SortNums(DropNaN(v))
        n      == Len(sorted)
    IN  IF n = 0 THEN NaN
        ELSE IF n % 2 = 1 THEN sorted[(n + 1) \div 2]
        ELSE NumDiv(NumAdd(sorted[n \div 2], sorted[(n \div 2) + 1]), Num(2))

\* mat[r0:r1, c0:c1] for 0 <= r0 <= r1 and 0 <= c0 <= c1 within the matrix,
\* flattened.
BlockOf(mat, r0, r1, c0, c1) ==
    [p \in 1..((r1 - r0) * (c1 - c0)) |->
        Get(mat, r0 + ((p - 1) \div (c1 - c0)), c0 + ((p - 1) % (c1 - c0)))]

\* Lines 28-29: set_diag(mat, nan, i) for i = from, ..., to.
RECURSIVE insul_mask_diags(_, _, _)
insul_mask_diags(mat, from, to) ==
    IF from > to THEN mat
    ELSE insul_mask_diags(set_diag(mat, <<NaN>>, from), from + 1, to)

\* Lines 26-29: mat is rebound to a copy only when ignore_diags is truthy.
insul_copies(ignore_diags) == ignore_diags # 0

insul_start(st) ==
    LET copied == [st EXCEPT !.pc = "score", !.aliased = ~insul_copies(st.ignore_diags)]
    IN  IF st.ignore_diags # 0
        THEN WriteThrough(copied, "mat", "arg",
                          insul_mask_diags(st.mat, -st.ignore_diags, st.ignore_diags))
        ELSE copied

\* insul_score with the window cut one bin short of the last column.
insul_score_short_window(st) ==
    LET N      == st.mat.rows
        lo(i)  == Max(0, i - st.window)
        hi(i)  == Min(i + st.window, N - 1)
        raw    == [b \in 1..N |-> nanmean(BlockOf(st.mat, lo(b - 1), b - 1, b - 1, Max(b - 1, hi(b - 1))))]
        norm   == [b \in 1..N |-> Len(DropNaN(BlockOf(st.mat, lo(b - 1), b - 1, b - 1, Max(b - 1, hi(b - 1)))))]
        scaled == [b \in 1..N |-> NumDiv(raw[b], Num(IF norm[b] > 0 THEN norm[b] ELSE 1))]
        median == nanmedian(scaled)
    IN  [st EXCEPT !.pc = "done",
                   !.norm = norm,
                   !.score = [b \in 1..N |-> NumDiv(scaled[b], median)]]

\* Lines 34-45: the loop over the bins and the two normalisations.
insul_score(st) ==
    LET N      == st.mat.rows
        lo(i)  == Max(0, i - st.window)
        hi(i)  == Min(i + st.window, N)
        raw    == [b \in 1..N |-> nanmean(BlockOf(st.mat, lo(b - 1), b - 1, b - 1, hi(b - 1)))]
        norm   == [b \in 1..N |-> Len(DropNaN(BlockOf(st.mat, lo(b - 1), b - 1, b - 1, hi(b - 1))))]
        scaled == [b \in 1..N |-> NumDiv(raw[b], Num(IF norm[b] > 0 THEN norm[b] ELSE 1))]
        median == nanmedian(scaled)
    IN  [st EXCEPT !.pc = "done",
                   !.norm = norm,
                   !.score = [b \in 1..N |-> NumDiv(scaled[b], median)]]

\* The call insul_diamond(mat, window, ignore_diags); arg is the caller's
\* array, mat the array the local name is bound to.
insul_call(mat, window, ignore_diags) ==
    [pc |-> "start", arg |-> mat, mat |-> mat, aliased |-> TRUE,
     window |-> window, ignore_diags |-> ignore_diags,
     norm |-> <<>>, score |-> <<>>]

\* The symmetric N x N matrices with entries 1 or NaN.
GappedMatrices(N) ==
    { Mat(N, N, [p \in 1..(N * N) |->
          f[<<Min((p - 1) \div N, (p - 1) % N), Max((p - 1) \div N, (p - 1) % N)>>]]) :
        f \in [{ rc \in (0..(N - 1)) \X (0..(N - 1)) : rc[1] <= rc[2] } -> {Num(1), NaN}] }

Windows == {1, 2, DefaultWindow}

InitInsul ==
    /\ comp = "insul"
    /\ \E N \in 1..MaxInsN :
       \E mat \in GappedMatrices(N) \cup {DistinctSymmetric(N)} :
       \E window \in Windows, ignore_diags \in 0..DefaultIgnoreDiags :
          insul = insul_call(mat, window, ignore_diags)
    /\ ToeplitzIdle
    /\ DiagIdle
    /\ ICIdle
    /\ OEIdle
    /\ OthersIdle

InsulStep(pc, next) ==
    /\ comp = "insul"
    /\ insul.pc = pc
    /\ insul' = next
    /\ UNCHANGED <<comp, tzVars, dgVars, icVars, oeVars, otherVars>>

InsulStart == InsulStep("start", insul_start(insul))

InsulScore == InsulStep("score", insul_score(insul))

NextInsul == InsulStart \/ InsulScore

SpecInsul == InitInsul /\ [][NextInsul]_vars

\* ------------------------------------------------------------------
\* find_insulating_boundaries
\* ------------------------------------------------------------------

\* Bound: the largest number of bins of a chromosome.
MaxFibN == 4

\* a[start:stop] += vals, vals a sequence as long as the slice or a scalar
\* (a one-element sequence here).
SliceAdd(a, start, stop, vals) ==
    LET idx == SliceIndices(Len(a), start, stop, 1)
    IN  [p \in 1..Len(a) |->
            IF \E t \in 1..Len(idx) : idx[t] = p - 1
            THEN LET t == CHOOSE t \in 1..Len(idx) : idx[t] = p - 1
                 IN  a[p] + vals[((t - 1) % Len(vals)) + 1]
            ELSE a[p]]

\* is_bad_bin.astype(np.int)
AsInt(flags) == [p \in 1..Len(flags) |-> IF flags[p] THEN 1 ELSE 0]

\* Line 94: bad_bins_u[-i:] += 1.
bad_bins_end(u, d, i) ==
    [u |-> SliceAdd(u, -i, Len(u), <<1>>), d |-> d]

\* Lines 90-94: the passes i, i + 1, ..., window_bins - 1 of the loop.
RECURSIVE bad_bins_loop(_, _, _, _, _)
bad_bins_loop(is_bad_bin, u, d, i, window_bins) ==
    IF i >= window_bins THEN [u |-> u, d |-> d]
    ELSE LET n  == Len(is_bad_bin)
             u1 == SliceAdd(u, i, n, Slice(AsInt(is_bad_bin), 0, -i, 1))
             u2 == SliceAdd(u1, 0, i, <<1>>)
             d1 == SliceAdd(d, 0, -i, Slice(AsInt(is_bad_bin), i, n, 1))
             ud == bad_bins_end(u2, d1, i)
         IN  bad_bins_loop(is_bad_bin, ud.u, ud.d, i + 1, window_bins)

\* Lines 88-94: bad_bins_u and bad_bins_d.
bad_bins(is_bad_bin, window_bins) ==
    bad_bins_loop(is_bad_bin, AsInt(is_bad_bin), AsInt(is_bad_bin), 1, window_bins)

\* np.log2, with the logarithms of positive numbers kept by their argument:
\* a finite positive entry y of a track stands for log2(y).  The order and
\* the equality of logarithms are those of their arguments, log2(0) is -inf
\* and the logarithm of a negative number is NaN.
log2(x) ==
    IF IsNaN(x) \/ x = NegInf THEN NaN
    ELSE IF x = PosInf THEN PosInf
    ELSE IF x[1] < 0 THEN NaN
    ELSE IF x[1] = 0 THEN NegInf
    ELSE x

\* -t for an entry of a track: -log2(y) = log2(1 / y).
neg_log2(t) ==
    IF IsNaN(t) THEN NaN
    ELSE IF t = PosInf THEN NegInf
    ELSE IF t = NegInf THEN PosInf
    ELSE NumDiv(Num(1), t)

\* Lines 107-109: the entries of bad bins and of bins with too many bad
\* bins on one side set to NaN.
fib_masked(ins_track, is_bad_bin, bad_bins_u, bad_bins_d, max_bad_bins) ==
    [b \in 1..Len(ins_track) |->
        IF is_bad_bin[b] \/ bad_bins_u[b] > max_bad_bins \/ bad_bins_d[b] > max_bad_bins
        THEN NaN
        ELSE ins_track[b]]

\* The neighbours of position b of a signal that hold a number.
PresentNeighbours(signal, b) ==
    { q \in {b - 1, b + 1} : q >= 1 /\ q <= Len(signal) /\ ~IsNaN(signal[q]) }

\* peaks.find_peak_prominence is not part of the source tree.  It is taken
\* as the spec describes it: the positions it returns are local maxima of
\* the signal.  A position whose two neighbours both hold a number is
\* returned exactly when it is strictly above both; what it does with a local
\* maximum at an end of the signal or next to a missing entry is left open.
PeakPossible(signal) ==
    { b \in 1..Len(signal) :
        /\ ~IsNaN(signal[b])
        /\ \A q \in PresentNeighbours(signal, b) : NumLt(signal[q], signal[b]) }

PeakCertain(signal) ==
    { b \in PeakPossible(signal) : Cardinality(PresentNeighbours(signal, b)) = 2 }

find_peak_prominence(signal) ==
    { poss \in SUBSET PeakPossible(signal) : PeakCertain(signal) \subseteq poss }

\* Lines 86-116: the table of one chromosome, given the positions the peak
\* finder returns.
fib_chrom_table(st, chrom, poss) ==
    LET counts    == bad_bins(chrom.is_bad_bin, st.window_bins)
        score     == insul_score(insul_start(
                         insul_call(chrom.m, st.window_bins, st.c.ignore_diags))).score
        ins_track == fib_masked([b \in 1..Len(score) |-> log2(score[b])],
                                chrom.is_bad_bin, counts.u, counts.d, st.max_bad_bins)
    IN  [bad_bins_u |-> counts.u, bad_bins_d |-> counts.d,
         ins_track |-> ins_track, poss |-> poss]

\* -ins_track of the chromosome, the signal handed to the peak finder.
fib_signal(st, chrom) ==
    LET t == fib_chrom_table(st, chrom, {}).ins_track
    IN  [b \in 1..Len(t) |-> neg_log2(t[b])]

\* fib_start without the test of lines 78-81.
fib_start_unchecked(st) ==
    [st EXCEPT !.pc = IF Len(st.c.chroms) > 0 THEN "chrom" ELSE "return",
               !.window_bins = st.window_bp \div st.c.bin_size]

\* Lines 74-83: the attributes read, and the exception for a window that is
\* not a multiple of the bin size.
fib_start(st) ==
    IF st.window_bp % st.c.bin_size # 0
    THEN [st EXCEPT !.pc = "raised", !.error = "Exception",
                    !.window_bins = st.window_bp \div st.c.bin_size]
    ELSE [st EXCEPT !.pc = IF Len(st.c.chroms) > 0 THEN "chrom" ELSE "return",
                    !.window_bins = st.window_bp \div st.c.bin_size]

\* Lines 85-116: the loop body for the next chromosome.
fib_chrom(st, poss) ==
    LET chrom == st.c.chroms[Len(st.ins_chrom_tables) + 1]
    IN  [st EXCEPT !.pc = IF Len(st.ins_chrom_tables) + 1 < Len(st.c.chroms)
                          THEN "chrom" ELSE "return",
                   !.ins_chrom_tables = Append(@, fib_chrom_table(st, chrom, poss))]

\* Lines 118-119
fib_return(st) == [st EXCEPT !.pc = "done"]

\* The call find_insulating_boundaries(c, window_bp, max_bad_bins).
fib_call(c, window_bp, max_bad_bins) ==
    [pc |-> "start", c |-> c, window_bp |-> window_bp, max_bad_bins |-> max_bad_bins,
     window_bins |-> 0, ins_chrom_tables |-> <<>>, error |-> ""]

UniformMatrix(N, v) == Mat(N, N, [p \in 1..(N * N) |-> v])

\* c.matrix(balance=True).fetch(chrom): the rows and columns of the bad bins
\* (the bins whose weight is NaN) hold NaN.
Balanced(raw, is_bad_bin) ==
    [raw EXCEPT !.flat = [p \in 1..Len(raw.flat) |->
        IF is_bad_bin[((p - 1) \div raw.cols) + 1] \/ is_bad_bin[((p - 1) % raw.cols) + 1]
        THEN NaN ELSE raw.flat[p]]]

UniformVals == {Num(0), Num(2)}

\* The chromosomes of N bins: their bad-bin flags and balanced matrix.
Chromosomes(N) ==
    { [is_bad_bin |-> flags, m |-> Balanced(raw, flags)] :
        flags \in [1..N -> BOOLEAN],
        raw \in { UniformMatrix(N, v) : v \in UniformVals } \cup {DistinctSymmetric(N)} }

\* The chromosome lists of the coolers: one chromosome of up to MaxFibN
\* bins, or two chromosomes of two bins with all contacts equal.
ChromLists ==
    { <<ch>> : ch \in UNION { Chromosomes(N) : N \in 1..MaxFibN } }
    \cup { <<a, b>> : a, b \in { ch \in Chromosomes(2) : ch.m.flat[2] \in {Num(2), NaN} } }

\* (bin_size, window_bp): windows of 1 to 3 bins, one of them in bins of
\* size 2, and a window of one bin and a half.
WindowArgs == ({1} \X (1..3)) \cup {<<2, 3>>, <<2, 4>>}

InitFIB ==
    /\ comp = "fib"
    /\ \E chroms \in ChromLists, bw \in WindowArgs :
       \E ignore_diags \in 0..DefaultIgnoreDiags, max_bad_bins \in 0..2 :
          fib = fib_call([bin_size |-> bw[1], ignore_diags |-> ignore_diags,
                          chroms |-> chroms], bw[2], max_bad_bins)
    /\ ToeplitzIdle
    /\ DiagIdle
    /\ ICIdle
    /\ OEIdle
    /\ InsulIdle
    /\ EntryIdle

FIBStep(pc, next) ==
    /\ comp = "fib"
    /\ fib.pc = pc
    /\ fib' = next
    /\ UNCHANGED <<comp, tzVars, dgVars, icVars, oeVars, insVars, entVars>>

FIBStart == FIBStep("start", fib_start(fib))

FIBChrom ==
    /\ comp = "fib"
    /\ fib.pc = "chrom"
    /\ \E poss \in find_peak_prominence(
                       fib_signal(fib, fib.c.chroms[Len(fib.ins_chrom_tables) + 1])) :
          fib' = fib_chrom(fib, poss)
    /\ UNCHANGED <<comp, tzVars, dgVars, icVars, oeVars, insVars, entVars>>

FIBReturn == FIBStep("return", fib_return(fib))

NextFIB == FIBStart \/ FIBChrom \/ FIBReturn

SpecFIB == InitFIB /\ [][NextFIB]_vars

FIBDone == comp = "fib" /\ fib.pc = "done"

\* All entries of the chromosome's matrix are equal and no bin is bad.
UniformChrom(ch) ==
    /\ \A b \in 1..Len(ch.is_bad_bin) : ~ch.is_bad_bin[b]
    /\ \A p \in 1..Len(ch.m.flat) : ch.m.flat[p] = ch.m.flat[1]

\* Bin i (counted from 0) of a chromosome of N bins has its whole window
\* inside the chromosome.
InteriorBin(i, N) ==
    /\ i >= 0 /\ i < N
    /\ fib.window_bins <= i
    /\ i + fib.window_bins <= N

\* The chromosomes of the finished call that are uniform.
UniformTables ==
    { t \in 1..Len(fib.ins_chrom_tables) : UniformChrom(fib.c.chroms[t]) }

\* C11 as stated: on a uniform matrix without bad bins the insulation score
\* is the same at every interior bin, and the boundary-strength track is
\* missing at every bin.
C11_AsStated ==
    FIBDone =>
        \A t \in UniformTables :
            LET tab == fib.ins_chrom_tables[t]
                N   == Len(tab.ins_track)
            IN  /\ \A i, j \in 0..(N - 1) :
                      (InteriorBin(i, N) /\ InteriorBin(j, N))
                          => tab.ins_track[i + 1] = tab.ins_track[j + 1]
                /\ tab.poss = {}

\* C11: on a uniform matrix without bad bins the insulation score is the
\* same at every interior bin, and the boundary-strength track is missing at
\* every interior bin that is next to another interior bin.
C11_UniformInteriorFlat ==
    FIBDone =>
        \A t \in UniformTables :
            LET tab == fib.ins_chrom_tables[t]
                N   == Len(tab.ins_track)
            IN  /\ \A i, j \in 0..(N - 1) :
                      (InteriorBin(i, N) /\ InteriorBin(j, N))
                          => tab.ins_track[i + 1] = tab.ins_track[j + 1]
                /\ \A i \in 0..(N - 1) :
                      (InteriorBin(i, N) /\ (InteriorBin(i - 1, N) \/ InteriorBin(i + 1, N)))
                          => (i + 1) \notin tab.poss

\* A finished call on a uniform chromosome with two neighbouring interior
\* bins that hold a score.
C11_Witness ==
    /\ FIBDone
    /\ \E t \in UniformTables :
          LET tab == fib.ins_chrom_tables[t]
              N   == Len(tab.ins_track)
          IN  \E i \in 0..(N - 2) :
                 /\ InteriorBin(i, N) /\ InteriorBin(i + 1, N)
                 /\ IsFinite(tab.ins_track[i + 1])

\* The number of positions lo..hi (bins counted from 0) that are bad bins or
\* lie outside the chromosome.
BadPositions(is_bad_bin, lo, hi) ==
    Cardinality({ p \in lo..hi : p < 0 \/ p > Len(is_bad_bin) - 1 \/ is_bad_bin[p + 1] })

Reversed(v) == [b \in 1..Len(v) |-> v[Len(v) + 1 - b]]

\* np.log2(insul_diamond(m, window_bins, ignore_diags)) of a chromosome,
\* before any entry is marked missing.
UnmaskedTrack(chrom) ==
    LET score == insul_score(insul_start(
                     insul_call(chrom.m, fib.window_bins, fib.c.ignore_diags))).score
    IN  [b \in 1..Len(score) |-> log2(score[b])]

\* C14: for every bin i of a chromosome of N bins and a window of w bins the
\* upstream count is the number of positions in [i-w+1, i] that are bad or
\* before bin 0 and the downstream count the number of positions in
\* [i, i+w-1] that are bad or past bin N-1; the score of a bin is marked
\* missing exactly when the bin is bad or one of the two counts exceeds
\* max_bad_bins; the counts of the reversed flag vector are the counts
\* swapped and reversed.
C14_BadBinCounts ==
    FIBDone =>
        \A t \in 1..Len(fib.ins_chrom_tables) :
            LET tab   == fib.ins_chrom_tables[t]
                chrom == fib.c.chroms[t]
                bad   == chrom.is_bad_bin
                w     == fib.window_bins
                up(i)   == BadPositions(bad, i - w + 1, i)
                down(i) == BadPositions(bad, i, i + w - 1)
                rev   == bad_bins(Reversed(bad), w)
            IN  /\ \A i \in 0..(Len(bad) - 1) :
                      /\ tab.bad_bins_u[i + 1] = up(i)
                      /\ tab.bad_bins_d[i + 1] = down(i)
                      /\ tab.ins_track[i + 1] =
                            IF bad[i + 1] \/ up(i) > fib.max_bad_bins
                                          \/ down(i) > fib.max_bad_bins
                            THEN NaN
                            ELSE UnmaskedTrack(chrom)[i + 1]
                /\ rev.u = Reversed(tab.bad_bins_d)
                /\ rev.d = Reversed(tab.bad_bins_u)

\* ------------------------------------------------------------------
\* The caller's arrays across all the operations that take one
\* ------------------------------------------------------------------

InitFrame == InitDiag \/ InitIC \/ InitOE \/ InitInsul

NextFrame == NextDiag \/ NextIC \/ NextOE \/ NextInsul

SpecFrame == InitFrame /\ [][NextFrame]_vars

\* A step after which the array the caller passed differs from before it.
InputModified ==
    \/ comp = "diag" /\ arr' # arr
    \/ comp = "ic" /\ (ic'.x # ic.x \/ ic_k'.x # ic_k.x)
    \/ comp = "oe" /\ oe'.matrix # oe.matrix
    \/ comp = "insul" /\ insul'.arg # insul.arg

\* C6 as stated: a caller's array is modified only by a call that passes
\* copy=False explicitly; every call that leaves copy at its default leaves
\* the array as it was.
C6_AsStated ==
    [][InputModified => (comp = "diag" /\ call'.explicit /\ ~call'.copy)]_vars

\* C6: a caller's array is modified only by a call whose copy is False, which
\* is what the caller passes explicitly to fill_diagonal, fill_na, fill_inf
\* and fill_nainf, and what set_diag takes by default; no call of
\* iterative_correction_symmetric, observed_over_expected or insul_diamond
\* modifies it.
C6_ModifiedOnlyWithoutCopy ==
    [][InputModified =>
        /\ comp = "diag"
        /\ ~call'.copy
        /\ (call'.explicit \/ call'.op = "set_diag")]_vars

\* set_diag called with copy left at its default has written the caller's array.
C6_Witness ==
    /\ comp = "diag"
    /\ call.op = "set_diag"
    /\ ~call.explicit
    /\ Abs(call.k) < arr.rows
    /\ arr = ret
    /\ arr \notin DiagArrays

\* ------------------------------------------------------------------
\* LazyToeplitz
\* ------------------------------------------------------------------

\* Bound: the longest first column / first row drawn.
MaxLen == 4

ToeplitzVals == {1, 2}

\* scipy.linalg.toeplitz(c, r): first column c, first row r, r[0] ignored.
toeplitz(c, r) ==
    Mat(Len(c), Len(r),
        [k \in 1..(Len(c) * Len(r)) |->
            LET a == (k - 1) \div Len(r)
                b == (k - 1) % Len(r)
            IN  IF a >= b THEN At(c, a - b) ELSE At(r, b - a)])

\* getitem_triu with the backward read of R stopped at j0-i1 itself, not at
\* max(0, j0-i1): a negative stop then counts from the end of R.
getitem_triu_unclamped(C, R, i0, i1, j0, j1, transpose) ==
    LET c == Slice(R, j0 - i0, j0 - i1, -1) \o Slice(C, 0, Max(0, i1 - j0), 1)
        r == Slice(R, j0 - i0, j1 - i0, 1)
    IN  IF transpose THEN toeplitz(r, c) ELSE toeplitz(c, r)

\* getitem_triu without the final exchange of c and r.
getitem_triu_untransposed(C, R, i0, i1, j0, j1, transpose) ==
    LET c == Slice(R, j0 - i0, Max(0, j0 - i1), -1) \o Slice(C, 0, Max(0, i1 - j0), 1)
        r == Slice(R, j0 - i0, j1 - i0, 1)
    IN  toeplitz(c, r)

\* The asymmetric branch of __getitem__ once the query is above the diagonal.
getitem_triu(C, R, i0, i1, j0, j1, transpose) ==
    LET c == Slice(R, j0 - i0, Max(0, j0 - i1), -1) \o Slice(C, 0, Max(0, i1 - j0), 1)
        r == Slice(R, j0 - i0, j1 - i0, 1)
    IN  IF transpose THEN toeplitz(r, c) ELSE toeplitz(c, r)

\* LazyToeplitz.__getitem__ for the key [i0:i1, j0:j1].
getitem(C, R, i0, i1, j0, j1) ==
    IF i0 = j0 /\ i1 = j1
    THEN toeplitz(Slice(C, 0, i1 - i0, 1), Slice(R, 0, j1 - j0, 1))
    ELSE IF j0 < i0 \/ (i0 = j0 /\ i1 < j1)
         THEN getitem_triu(R, C, j0, j1, i0, i1, TRUE)
         ELSE getitem_triu(C, R, i0, i1, j0, j1, FALSE)

\* The first columns and rows a LazyToeplitz is built from: c[0] == r[0]
\* (the constructor rejects anything else) and, as the claims suppose, equal
\* lengths.  The documented example is among them.
ToeplitzInputs ==
    { cr \in UNION { [1..n -> ToeplitzVals] \X [1..n -> ToeplitzVals] : n \in 1..MaxLen } :
        cr[1][1] = cr[2][1] }
    \cup { << <<1, 2, 3, 4>>, <<1, 5, 6, 7>> >> }

\* LazyToeplitz.__init__
InitToeplitz ==
    /\ comp = "toeplitz"
    /\ \E cr \in ToeplitzInputs : self_c = cr[1] /\ self_r = cr[2]
    /\ key = <<>>
    /\ block = NoMat
    /\ DiagIdle
    /\ ICIdle
    /\ OEIdle
    /\ InsulIdle
    /\ OthersIdle

\* One query lazy[i0:i1, j0:j1] with 0 <= i0 < i1 <= N and 0 <= j0 < j1 <= N.
\* The object is immutable, so queries do not influence one another and the
\* model follows one query per object.
GetItem ==
    /\ comp = "toeplitz"
    /\ key = <<>>
    /\ \E i0, j0 \in 0..(Len(self_c) - 1) :
       \E i1 \in (i0 + 1)..Len(self_c), j1 \in (j0 + 1)..Len(self_r) :
          /\ key' = <<i0, i1, j0, j1>>
          /\ block' = getitem(self_c, self_r, i0, i1, j0, j1)
    /\ UNCHANGED <<comp, self_c, self_r, dgVars, icVars, oeVars, insVars, otherVars>>

NextToeplitz == GetItem

SpecToeplitz == InitToeplitz /\ [][NextToeplitz]_vars

\* The dense matrix the lazy one stands for.
full_matrix(C, R, i, j) == IF i >= j THEN At(C, i - j) ELSE At(R, j - i)

\* C1: for all C, R with C[0] == R[0] and every query rectangle, the block
\* __getitem__ returns has shape (i1-i0, j1-j0) and its entry (a, b) is
\* full_matrix[i0+a, j0+b].
C1_BlockIsFullMatrixSlice ==
    key # <<>> =>
        /\ block.rows = key[2] - key[1]
        /\ block.cols = key[4] - key[3]
        /\ Len(block.flat) = block.rows * block.cols
        /\ \A a \in 0..(block.rows - 1), b \in 0..(block.cols - 1) :
              Get(block, a, b) = full_matrix(self_c, self_r, key[1] + a, key[3] + b)

\* A query whose block straddles the main diagonal without being symmetric,
\* on a matrix whose column and row differ.
C1_Witness ==
    /\ key # <<>>
    /\ self_c # self_r
    /\ key[1] > key[3] /\ key[1] < key[4] /\ key[2] > key[4]
    /\ block.rows = key[2] - key[1]

ExampleC == <<1, 2, 3, 4>>

ExampleR == <<1, 5, 6, 7>>

IsExample == self_c = ExampleC /\ self_r = ExampleR

\* C2 as stated: on C=[1,2,3,4], R=[1,5,6,7] the block [0:2,0:2] is
\* [[1,5],[2,1]] and the block [2:4,0:2] is [[3,6],[4,3]].
C2_AsStated ==
    /\ (IsExample /\ key = <<0, 2, 0, 2>>) => block = Mat(2, 2, <<1, 5, 2, 1>>)
    /\ (IsExample /\ key = <<2, 4, 0, 2>>) => block = Mat(2, 2, <<3, 6, 4, 3>>)

\* C2 as amended: on C=[1,2,3,4], R=[1,5,6,7] the block [0:2,0:2] is
\* [[1,5],[2,1]] and the block [2:4,0:2] is [[3,2],[4,3]].
C2_ExampleBlocks ==
    /\ (IsExample /\ key = <<0, 2, 0, 2>>) => block = Mat(2, 2, <<1, 5, 2, 1>>)
    /\ (IsExample /\ key = <<2, 4, 0, 2>>) => block = Mat(2, 2, <<3, 2, 4, 3>>)

C2_Witness == IsExample /\ key = <<2, 4, 0, 2>> /\ block.rows = 2

\* ------------------------------------------------------------------
\* Entry points that validate their arguments: normalize_score, logbins
\* and the LazyToeplitz constructor
\* ------------------------------------------------------------------

\* The largest integer whose square root is looked for.
MaxSquare == 10000

\* np.sqrt where the root is rational; Huge where it is not.
NumSqrt(x) ==
    IF x = Huge THEN Huge
    ELSE IF IsNaN(x) \/ IsNegInf(x) THEN NaN
    ELSE IF IsPosInf(x) THEN PosInf
    ELSE IF x[1] < 0 THEN NaN
    ELSE IF x[1] > MaxSquare \/ x[2] > MaxSquare THEN Huge
    ELSE IF /\ \E r \in 0..x[1] : r * r = x[1]
            /\ \E r \in 1..x[2] : r * r = x[2]
         THEN <<CHOOSE r \in 0..x[1] : r * r = x[1], CHOOSE r \in 1..x[2] : r * r = x[2]>>
    ELSE Huge

\* np.median: NaN as soon as one entry is NaN.
median(v) == IF \E i \in 1..Len(v) : IsNaN(v[i]) THEN NaN ELSE nanmedian(v)

\* arr - x and arr / x, entry by entry.
SubEach(v, x) == [i \in 1..Len(v) |-> NumSub(v[i], x)]

DivEach(v, x) == [i \in 1..Len(v) |-> NumDiv(v[i], x)]

\* np.std and np.nanstd of a 1-D array.
std(v) == NumSqrt(Var(v))

nanstd(v) == NumSqrt(Var(DropNaN(v)))

\* MAD(arr, axis=None, has_nans): the median absolute deviation.
MAD(v, has_nans) ==
    IF has_nans
    THEN nanmedian([i \in 1..Len(v) |-> NumAbs(NumSub(v[i], nanmedian(v)))])
    ELSE median([i \in 1..Len(v) |-> NumAbs(NumSub(v[i], median(v)))])

\* str.lower of the norm names drawn.
Lower(norm) ==
    CASE norm = "Z" -> "z"
      [] norm = "MAD" -> "mad"
      [] norm = "MADZ" -> "madz"
      [] OTHER -> norm

\* The factor of the 'madz' norm.
MadzFactor == Q(67449, 100000)

\* normalize_score(arr, norm, axis=None, has_nans)
normalize_score(st) ==
    LET norm     == Lower(st.norm)
        norm_arr == st.arr
        centre   == IF norm = "z"
                    THEN (IF st.has_nans THEN nanmean(norm_arr) ELSE Mean(norm_arr))
                    ELSE (IF st.has_nans THEN nanmedian(norm_arr) ELSE median(norm_arr))
        centred  == SubEach(norm_arr, centre)
        spread   == IF norm = "z"
                    THEN (IF st.has_nans THEN nanstd(centred) ELSE std(centred))
                    ELSE MAD(centred, st.has_nans)
        scaled   == DivEach(centred, spread)
        result   == IF norm = "madz"
                    THEN [i \in 1..Len(scaled) |-> NumMul(scaled[i], MadzFactor)]
                    ELSE scaled
    IN  IF norm \in {"z", "mad", "madz"}
        THEN [st EXCEPT !.pc = "returned", !.norm_arr = result, !.out = result]
        ELSE [st EXCEPT !.pc = "raised", !.error = "ValueError", !.norm_arr = norm_arr]

\* logbins(lo, hi, ratio, N, prepend_zero): the argument test of lines
\* 398-403, then the edges.  A ratio of <<0, 1>> is the default 0.
logbins_call(st) ==
    LET given == st.ratio[1] # 0
        edges == IF given THEN logbins(st.lo, st.hi, st.ratio)
                 ELSE logbins_data(st.lo, st.hi, st.N)
    IN  IF (given /\ st.N # 0) \/ (~given /\ st.N = 0)
        THEN [st EXCEPT !.pc = "raised", !.error = "ValueError"]
        ELSE IF edges.error # ""
        THEN [st EXCEPT !.pc = "raised", !.error = edges.error]
        ELSE [st EXCEPT !.pc = "returned",
                        !.out = IF st.prepend_zero THEN <<0>> \o edges.edges
                                ELSE edges.edges]

\* LazyToeplitz.__init__(c, r): r is None when r_given is FALSE.
toeplitz_init(st) ==
    IF st.r_given /\ st.c[1] # st.r[1]
    THEN [st EXCEPT !.pc = "raised", !.error = "ValueError"]
    ELSE [st EXCEPT !.pc = "returned",
                    !.self = [c |-> st.c, r |-> IF st.r_given THEN st.r ELSE st.c]]

NoSelf == [c |-> <<>>, r |-> <<>>]

\* A call of one of the three entry points, before its first statement.
entry_call(op) ==
    [op |-> op, pc |-> "call", error |-> "",
     arr |-> <<>>, norm |-> "", has_nans |-> FALSE, norm_arr |-> <<>>,
     lo |-> 0, hi |-> 0, ratio |-> <<0, 1>>, N |-> 0, prepend_zero |-> FALSE,
     c |-> <<>>, r |-> <<>>, r_given |-> FALSE,
     out |-> <<>>, self |-> NoSelf]

ScoreVals == {Num(0), Num(1), Num(3), NaN}

Norms == {"z", "Z", "mad", "MADZ", "zscore", ""}

NormalizeCalls ==
    { [entry_call("normalize_score") EXCEPT !.arr = a, !.norm = n, !.has_nans = h] :
        a \in UNION { [1..len -> ScoreVals] : len \in 1..MaxLen },
        n \in Norms, h \in BOOLEAN }

LogbinsCalls ==
    { [entry_call("logbins") EXCEPT !.lo = 1, !.hi = hi, !.ratio = ratio, !.N = N,
                                    !.prepend_zero = z] :
        hi \in 1..MaxOEN, ratio \in Ratios \cup {<<0, 1>>}, N \in 0..MaxLen,
        z \in BOOLEAN }

ToeplitzCalls ==
    { [entry_call("LazyToeplitz") EXCEPT !.c = cr[1], !.r = cr[2], !.r_given = TRUE] :
        cr \in UNION { [1..n -> ToeplitzVals] \X [1..n -> ToeplitzVals] : n \in 1..MaxLen } }
    \cup { [entry_call("LazyToeplitz") EXCEPT !.c = c] :
        c \in UNION { [1..n -> ToeplitzVals] : n \in 1..MaxLen } }

\* Every number of the result is followed exactly.
EntryExact(st) == \A i \in 1..Len(st.norm_arr) : st.norm_arr[i] # Huge

InitEntryPoint ==
    /\ comp = "entry"
    /\ entry \in NormalizeCalls \cup LogbinsCalls \cup ToeplitzCalls
    /\ ToeplitzIdle /\ DiagIdle /\ ICIdle /\ OEIdle /\ InsulIdle /\ FIBIdle

EntryStep(op, next) ==
    /\ comp = "entry"
    /\ entry.pc = "call"
    /\ entry.op = op
    /\ EntryExact(next)
    /\ entry' = next
    /\ UNCHANGED <<comp, tzVars, dgVars, icVars, oeVars, insVars, fibVars>>

NormalizeScore == EntryStep("normalize_score", normalize_score(entry))

Logbins == EntryStep("logbins", logbins_call(entry))

ToeplitzInit == EntryStep("LazyToeplitz", toeplitz_init(entry))

NextEntryPoint == NormalizeScore \/ Logbins \/ ToeplitzInit

\* The five functions that validate their configuration.
InitEntry == InitEntryPoint \/ InitFIB \/ InitOE

NextEntry == NextEntryPoint \/ NextFIB \/ NextOE

SpecEntry == InitEntry /\ [][NextEntry]_vars

\* The configuration errors, as the state before the first statement shows them.
BadWindow == fib.pc = "start" /\ fib.window_bp % fib.c.bin_size # 0

BadMaskDims == oe.pc = "start" /\ oe.mask.ndim \notin {1, 2}

EntryCalled(op) == entry.pc = "call" /\ entry.op = op

UnknownNorm ==
    /\ EntryCalled("normalize_score")
    /\ entry.norm \notin {"z", "Z", "mad", "MAD", "madz", "MADZ"}

RatioAndN ==
    /\ EntryCalled("logbins")
    /\ (entry.ratio = <<0, 1>>) = (entry.N = 0)

FirstEntriesDiffer ==
    /\ EntryCalled("LazyToeplitz")
    /\ entry.r_given
    /\ entry.c[1] # entry.r[1]

\* The arguments of an entry-point call.
EntryArgs(st) ==
    <<st.arr, st.norm, st.has_nans, st.lo, st.hi, st.ratio, st.N, st.prepend_zero,
      st.c, st.r, st.r_given>>

\* The call ends with an exception, has returned nothing and its arguments
\* are what they were.
EntryRaisedFirst ==
    /\ entry'.pc = "raised"
    /\ entry'.error = "ValueError"
    /\ entry'.out = <<>>
    /\ entry'.self = NoSelf
    /\ EntryArgs(entry') = EntryArgs(entry)

\* C12: a configuration error is raised by the first step of the call,
\* before any output exists and with every input as it was: a window that is
\* not a multiple of the bin size in find_insulating_boundaries (no
\* chromosome has been processed), a mask of neither 1 nor 2 dimensions in
\* observed_over_expected, an unknown norm in normalize_score, neither or
\* both of ratio and N in logbins, c[0] != r[0] in the LazyToeplitz
\* constructor.
C12_ConfigErrorsRaisedFirst ==
    [][ /\ BadWindow =>
            /\ fib'.pc = "raised"
            /\ fib'.ins_chrom_tables = <<>>
            /\ fib'.c = fib.c
        /\ BadMaskDims =>
            /\ oe'.pc = "raised"
            /\ oe'.error = "ValueError"
            /\ oe'.data = NoMat
            /\ oe'.matrix = oe.matrix
            /\ oe'.mask = oe.mask
        /\ (UnknownNorm \/ RatioAndN \/ FirstEntriesDiffer) => EntryRaisedFirst
      ]_vars

\* find_insulating_boundaries has raised on a cooler that has chromosomes.
C12_Witness ==
    /\ fib.pc = "raised"
    /\ fib.window_bp % fib.c.bin_size # 0
    /\ Len(fib.c.chroms) > 0
    /\ fib.ins_chrom_tables = <<>>

====
